---- MODULE Spec2Model ----
(***************************************************************************)
(* Transaction link generator: rate limiter, provider selection,           *)
(* transaction submission (useMetaKeepTransaction.execute) and             *)
(* verification, with the execution page that calls them.                  *)
(***************************************************************************)
EXTENDS Integers, Sequences, FiniteSets, TLC

\* ---------------------------------------------------------------------
\* Program constants
\* ---------------------------------------------------------------------
maxRequests == 10
windowMs == 60000
\* setTimeout(() => reject(new Error('Timeout')), 3000)
probeTimeoutMs == 3000
\* verifyTransactionWithRetry: const maxAttempts = 5
maxAttempts == 5
\* const delay = attempt * 5000
retryDelayMs == 5000

\* ---------------------------------------------------------------------
\* Bounds of the model
\* ---------------------------------------------------------------------
\* Date.now() is explored up to MaxClock, advancing by one of TickSteps.
MaxClock == 120000
TickSteps == {windowMs \div 2 - 1, windowMs \div 2}
\* The history of accepted calls is kept for HistWindows windows.
HistWindows == 2
\* Number of fallback endpoints listed per known chain.
FallbackLen == 2
\* Date.now() is explored up to MaxExecClock while transactions are executed.
MaxExecClock == 60000
\* Bytecode of up to MaxCodeBytes bytes is returned by getCode.
MaxCodeBytes == 6

VARIABLES
  clock,        \* Date.now()
  timestamps,   \* RateLimiter.timestamps of defaultRateLimiter
  rl,           \* the last call on the limiter: operation, time, list before, result
  hist,         \* history: times of the calls checkRateLimit accepted
  gwp,          \* getWorkingProvider in progress: probes, their results, the return value
  ver,          \* verifyTransactionWithRetry in progress: providers, round, result
  wallet,       \* MetaKeep context: "noSdk", "noAccount" or "connected"
  page,         \* the execution page that calls execute
  pc,           \* position of the execute() call in flight, "idle" if none
  details,      \* the TransactionDetails execute() was called with
  hook,         \* state of useMetaKeepTransaction: txHash, loading, error
  att,          \* the attempt in flight or the last one: its steps and outcome
  ui,           \* the notification the page raised for the attempt, "" while in flight
  burst,        \* attempts started since the limiter was last empty
  fn,           \* the last call of a validation function: arguments and result
  localStorage, \* localStorage["savedTransactions"]: the JSON texts of its entries
  loaded,       \* the load of the execution page: the link opened and what it set
  poll,         \* TransactionStatus: its state, the values its timer captured, its checks
  session,      \* MetaKeepProvider: the SDK instance, the wallet state, the connect() in flight
  flights       \* overlapping execute() calls on one hook: the hook's state and who set it

linkVars == <<localStorage, loaded>>
auxVars == <<poll, session, flights>>

rlVars == <<clock, timestamps, rl, hist>>

\* ---------------------------------------------------------------------
\* Rate limiter
\* ---------------------------------------------------------------------
\* timestamps.filter(timestamp => timestamp > windowStart)
pruneStrictMutant(ts, now) == SelectSeq(ts, LAMBDA t : t >= now - windowMs)
prune(ts, now) == SelectSeq(ts, LAMBDA t : t > now - windowMs)

\* RateLimiter.checkRateLimit at time now on the list ts:
\* the returned boolean and the list afterwards.
checkRateLimitCountsRejected(ts, now) ==
  LET kept == prune(ts, now)
  IN  IF Len(kept) >= maxRequests
        THEN [ret |-> FALSE, ts |-> Append(kept, now)]
        ELSE [ret |-> TRUE, ts |-> Append(kept, now)]
checkRateLimitOffByOne(ts, now) ==
  LET kept == prune(ts, now)
  IN  IF Len(kept) > maxRequests
        THEN [ret |-> FALSE, ts |-> kept]
        ELSE [ret |-> TRUE, ts |-> Append(kept, now)]
checkRateLimit(ts, now) ==
  LET kept == prune(ts, now)
  IN  IF Len(kept) >= maxRequests
        THEN [ret |-> FALSE, ts |-> kept]
        ELSE [ret |-> TRUE, ts |-> Append(kept, now)]

Max(a, b) == IF a >= b THEN a ELSE b

\* RateLimiter.getRemainingRequests at time now: the number and the list afterwards.
getRemainingRequestsRecording(ts, now) ==
  LET kept == prune(ts, now)
  IN  [ret |-> Max(0, maxRequests - Len(kept)), ts |-> Append(kept, now)]
getRemainingRequests(ts, now) ==
  LET kept == prune(ts, now)
  IN  [ret |-> Max(0, maxRequests - Len(kept)), ts |-> kept]

NoCall == [op |-> "none", now |-> 0, before |-> <<>>, ret |-> FALSE, n |-> 0]

\* Providers that are not an endpoint of a list: the ethers default provider,
\* the value undefined, and no value yet.
DefaultProvider == <<0, 0>>
Undefined == <<0, -1>>
NoProvider == <<0, -2>>

GwpIdle == [st |-> "idle", sel |-> "", urls |-> <<>>, lat |-> <<>>, res |-> <<>>,
            elapsed |-> 0, ret |-> NoProvider]
VerIdle == [st |-> "idle", hash |-> "", prov |-> NoProvider, chain |-> 0,
            provs |-> <<>>, round |-> 0,
            ret |-> FALSE, asked |-> {}, seen |-> {}, delay |-> 0]

NoDetails == [contractAddress |-> [prefix |-> FALSE, digits |-> 0, hex |-> TRUE],
              abi |-> <<>>, abiIsArray |-> TRUE, chainId |-> 0, rpcUrl |-> NoProvider,
              functionName |-> "", functionParams |-> <<>>, paramsIsArray |-> TRUE,
              value |-> [present |-> FALSE, parses |-> TRUE, milli |-> 0],
              email |-> "", bypassSecurity |-> FALSE]
NoAttempt == [trace |-> <<>>, provider |-> NoProvider, nonce |-> 0, gas |-> 0,
              shape |-> "", hash |-> "", returned |-> {}, observed |-> {},
              bypass |-> FALSE,
              link |-> NoDetails, passed |-> NoDetails,
              data |-> <<>>, estimated |-> FALSE,
              tx |-> [shape |-> "", to |-> NoDetails.contractAddress, chainId |-> 0,
                      gas |-> 0, nonce |-> 0, data |-> <<>>,
                      value |-> [present |-> FALSE, digits |-> 0, zeros |-> 0]],
              outcome |-> [kind |-> "none", val |-> ""]]
NoFn == [op |-> "none"]
\* TransactionStatus before a hash is given: transactionFoundOnChain is
\* null, confirmationChecks is 0, no interval runs.
NoPoll == [txHash |-> "", found |-> "null", checks |-> 0, timer |-> FALSE,
           capFound |-> "null", capChecks |-> 0, made |-> 0, failed |-> 0,
           seen |-> FALSE, excess |-> 0]
\* MetaKeepProvider before the SDK is initialised.
NoUser == "none"
NoSession == [metaKeep |-> NoUser, connecting |-> FALSE, connected |-> FALSE,
              accountAddress |-> NoUser, error |-> "",
              call |-> [op |-> "none", metaKeep |-> NoUser]]
\* The hook before any execute() call: nothing in flight.
NoFlights == [loading |-> FALSE,
              error |-> [by |-> 0, val |-> "null"],
              txHash |-> [by |-> 0, val |-> "null"],
              status |-> <<>>, monitor |-> <<>>, overwritten |-> FALSE]
NoTransaction == [id |-> "", transactionDetails |-> "", description |-> <<>>]
NoLoad == [via |-> "none", page |-> "", id |-> "", original |-> NoTransaction,
           transaction |-> NoTransaction, error |-> ""]
execVars == <<wallet, page, pc, details, hook, att, ui, burst>>

InitRL ==
  /\ clock = 0
  /\ timestamps = <<>>
  /\ rl = NoCall
  /\ hist = <<>>
  /\ gwp = GwpIdle
  /\ ver = VerIdle
  /\ wallet = "noSdk"
  /\ page = "part_011"
  /\ pc = "idle"
  /\ details = NoDetails
  /\ hook = [txHash |-> "", loading |-> FALSE, error |-> ""]
  /\ att = NoAttempt
  /\ ui = [toast |-> ""]
  /\ burst = [start |-> 0, count |-> 0]
  /\ fn = NoFn
  /\ localStorage = <<>>
  /\ loaded = NoLoad
  /\ poll = NoPoll
  /\ session = NoSession
  /\ flights = NoFlights

\* Time passes between two calls.
Tick ==
  \E d \in TickSteps :
    /\ clock + d <= MaxClock
    /\ clock' = clock + d
    /\ UNCHANGED <<timestamps, rl, hist, fn, linkVars, auxVars, gwp, ver, execVars>>

\* The history keeps what was accepted in the last HistWindows windows.
keepHist(h, now) == SelectSeq(h, LAMBDA t : t > now - HistWindows * windowMs)

\* A caller invokes defaultRateLimiter.checkRateLimit().
CheckRateLimit ==
  LET r == checkRateLimit(timestamps, clock)
  IN  /\ timestamps' = r.ts
      /\ rl' = [op |-> "check", now |-> clock, before |-> timestamps,
                ret |-> r.ret, n |-> 0]
      /\ hist' = IF r.ret THEN Append(keepHist(hist, clock), clock)
                          ELSE keepHist(hist, clock)
      /\ UNCHANGED <<clock, fn, linkVars, auxVars, gwp, ver, execVars>>

\* A caller invokes defaultRateLimiter.getRemainingRequests().
GetRemainingRequests ==
  LET r == getRemainingRequests(timestamps, clock)
  IN  /\ timestamps' = r.ts
      /\ rl' = [op |-> "remaining", now |-> clock, before |-> timestamps,
                ret |-> FALSE, n |-> r.ret]
      /\ UNCHANGED <<clock, fn, linkVars, auxVars, hist, gwp, ver, execVars>>

NextRL == Tick \/ CheckRateLimit \/ GetRemainingRequests

vars == <<clock, timestamps, rl, hist, gwp, ver, wallet, page, pc, details, hook, att, ui,
          burst, fn, localStorage, loaded, poll, session, flights>>

SpecRL == InitRL /\ [][NextRL]_vars

\* ---------------------------------------------------------------------
\* RPC endpoints
\* ---------------------------------------------------------------------
\* An endpoint URL is <<chain, k>>: the k-th entry of the fallback list of a
\* chain, or <<0, k>> for a URL that is in no list.
KnownChains == {1, 137, 80002}
CustomUrl == <<0, 1>>

\* const fallbackProviders: { [key: number]: string[] }; fallbackProviders[chainId] || []
fallbackProviders(chainId) ==
  IF chainId \in KnownChains
    THEN [k \in 1..FallbackLen |-> <<chainId, k>>]
    ELSE <<>>

RECURSIVE dedupe(_)
\* Array.from(new Set(list)): the first occurrence of every element, in order.
dedupe(list) ==
  IF list = <<>> THEN <<>>
  ELSE LET front == dedupe(SubSeq(list, 1, Len(list) - 1))
           x == list[Len(list)]
       IN  IF \E i \in DOMAIN front : front[i] = x THEN front ELSE Append(front, x)

Range(f) == {f[i] : i \in DOMAIN f}
Min(a, b) == IF a <= b THEN a ELSE b

\* ---------------------------------------------------------------------
\* getWorkingProvider (submission hook)
\* ---------------------------------------------------------------------
\* How an endpoint answers getBlockNumber(): with a block number or an error
\* after `at` ms, or never.
Answers == {[kind |-> "ok", at |-> 1000], [kind |-> "ok", at |-> 5000],
            [kind |-> "err", at |-> 1000], [kind |-> "never", at |-> 0]}
QuickAnswers == {[kind |-> "ok", at |-> 1000], [kind |-> "never", at |-> 0]}

\* Promise.race([blockNumberPromise, timeoutPromise]): when the probe of an
\* endpoint settles, and whether it yields the provider or null.
probeSettlesAt(a) ==
  IF a.kind = "never" THEN probeTimeoutMs ELSE Min(a.at, probeTimeoutMs)
probeResult(a) ==
  IF a.kind = "ok" /\ a.at < probeTimeoutMs THEN "ok" ELSE "null"

\* providers.find(p => p !== null)
findFirst(urls, res) ==
  IF \E i \in DOMAIN urls : res[i] = "ok"
    THEN urls[CHOOSE i \in DOMAIN urls :
                /\ res[i] = "ok"
                /\ \A j \in DOMAIN urls : res[j] = "ok" => i <= j]
    ELSE NoProvider

\* getWorkingProvider(rpcUrl, chainId) starts one probe per distinct URL.
gwpBegin(rpcUrl, chainId, lat) ==
  LET urls == dedupe(<<rpcUrl>> \o fallbackProviders(chainId))
  IN  [st |-> "probing", sel |-> "submission", urls |-> urls, lat |-> lat,
       res |-> [i \in DOMAIN urls |-> "pending"], elapsed |-> 0, ret |-> NoProvider]

\* The probes settle in the order of their settling times.
ProbeSettle ==
  /\ gwp.st = "probing"
  /\ \E i \in DOMAIN gwp.urls :
       /\ gwp.res[i] = "pending"
       /\ \A j \in DOMAIN gwp.urls :
            gwp.res[j] = "pending" =>
              probeSettlesAt(gwp.lat[i]) <= probeSettlesAt(gwp.lat[j])
       /\ gwp' = [gwp EXCEPT !.res[i] = probeResult(gwp.lat[i]),
                             !.elapsed = Max(@, probeSettlesAt(gwp.lat[i]))]

\* await Promise.all(providerPromises); the first working provider is
\* returned, otherwise the ethers default provider is tried.
ProbesDone ==
  /\ gwp.st = "probing"
  /\ \A i \in DOMAIN gwp.urls : gwp.res[i] # "pending"
  /\ LET p == findFirst(gwp.urls, gwp.res)
     IN  gwp' = IF p # NoProvider
                  THEN [gwp EXCEPT !.st = "done", !.ret = p]
                  ELSE [gwp EXCEPT !.st = "default"]

\* ethers.getDefaultProvider(chainId).getBlockNumber() answers or throws.
DefaultProviderSettle ==
  /\ gwp.st = "default"
  /\ \E ok \in BOOLEAN :
       gwp' = [gwp EXCEPT !.st = "done",
                          !.ret = IF ok THEN DefaultProvider ELSE Undefined]

GwpStep ==
  /\ \/ ProbeSettle
     \/ ProbesDone
     \/ DefaultProviderSettle
  /\ UNCHANGED <<clock, timestamps, rl, hist, fn, linkVars, auxVars, ver, execVars>>

\* A caller invokes getWorkingProvider on its own.
GwpCall ==
  /\ gwp.st \in {"idle", "done"}
  /\ \E chainId \in {137, 999}, rpcUrl \in {CustomUrl, <<137, 1>>} :
       \E lat \in [1..Len(dedupe(<<rpcUrl>> \o fallbackProviders(chainId))) -> Answers] :
         gwp' = gwpBegin(rpcUrl, chainId, lat)
  /\ UNCHANGED <<clock, timestamps, rl, hist, fn, linkVars, auxVars, ver, execVars>>

\* ---------------------------------------------------------------------
\* getWorkingProvider (balance hook)
\* ---------------------------------------------------------------------
\* testRpcProvider(url): true when getBlockNumber() answers, false when it
\* throws; the call is awaited without a timeout.
testRpcProvider(a) == a.kind = "ok"

\* getWorkingProvider(rpcUrl, chainId) of the balance hook: the given URL
\* first, then the fallback list of the chain, one after the other.
balanceGwpBegin(rpcUrl, chainId, lat) ==
  LET urls == <<rpcUrl>> \o fallbackProviders(chainId)
  IN  [st |-> "sequential", sel |-> "balance", urls |-> urls, lat |-> lat,
       res |-> [i \in DOMAIN urls |-> "pending"], elapsed |-> 0, ret |-> NoProvider]

\* The awaited testRpcProvider of the next URL in the sequence returns: the
\* URL is returned if it works, undefined after the last one failed.
BalanceProbe ==
  /\ gwp.st = "sequential"
  /\ LET i == CHOOSE k \in DOMAIN gwp.urls :
                /\ gwp.res[k] = "pending"
                /\ \A j \in 1..(k - 1) : gwp.res[j] # "pending"
         a == gwp.lat[i]
     IN  /\ a.kind # "never"
         /\ gwp' = IF testRpcProvider(a)
                     THEN [gwp EXCEPT !.res[i] = "ok", !.elapsed = @ + a.at,
                                      !.st = "done", !.ret = gwp.urls[i]]
                   ELSE IF i = Len(gwp.urls)
                     THEN [gwp EXCEPT !.res[i] = "null", !.elapsed = @ + a.at,
                                      !.st = "done", !.ret = Undefined]
                   ELSE [gwp EXCEPT !.res[i] = "null", !.elapsed = @ + a.at]
  /\ UNCHANGED <<clock, timestamps, rl, hist, fn, linkVars, auxVars, ver, execVars>>

\* The balance hook invokes its getWorkingProvider.
BalanceGwpCall ==
  /\ gwp.st \in {"idle", "done"}
  /\ \E chainId \in {137, 999}, rpcUrl \in {CustomUrl, <<137, 1>>} :
       \E lat \in [1..Len(<<rpcUrl>> \o fallbackProviders(chainId)) -> Answers] :
         gwp' = balanceGwpBegin(rpcUrl, chainId, lat)
  /\ UNCHANGED <<clock, timestamps, rl, hist, fn, linkVars, auxVars, ver, execVars>>

InitGWP == InitRL
NextGWP == GwpCall \/ GwpStep \/ BalanceGwpCall \/ BalanceProbe
SpecGWP == InitGWP /\ [][NextGWP]_vars

\* ---------------------------------------------------------------------
\* verifyTransactionWithRetry and checkTransactionStatus
\* ---------------------------------------------------------------------
PlaceholderHash == "email-verification-pending"

\* What one provider answers in a round: getTransaction and
\* getTransactionReceipt each yield an object, null, or throw.
StatusAnswers == {[tx |-> "found", rc |-> "null"], [tx |-> "null", rc |-> "found"],
                  [tx |-> "null", rc |-> "null"], [tx |-> "null", rc |-> "throws"],
                  [tx |-> "throws", rc |-> "found"]}

QuickStatusAnswers == {[tx |-> "found", rc |-> "null"], [tx |-> "null", rc |-> "null"]}

\* checkTransactionStatus(txHash, provider)
checkTransactionStatus(a) ==
  IF a.tx = "throws" THEN FALSE
  ELSE IF a.tx = "found" THEN TRUE
  ELSE a.rc = "found"

\* The provider list of verifyTransactionWithRetry: the selected provider,
\* then every URL of the chain's list other than the selected provider's.
verifyProviders(provider, chainId) ==
  LET rpcUrl == IF provider = DefaultProvider THEN <<>> ELSE <<provider>>
      uniqueUrls == dedupe(rpcUrl \o fallbackProviders(chainId))
  IN  <<provider>> \o SelectSeq(uniqueUrls, LAMBDA u : rpcUrl = <<>> \/ u # rpcUrl[1])

\* The call: placeholder or empty hashes are not polled.
verifyBegin(hash, provider, chainId) ==
  IF hash = "" \/ hash = PlaceholderHash
    THEN [VerIdle EXCEPT !.st = "done", !.hash = hash]
    ELSE [VerIdle EXCEPT !.st = "polling", !.hash = hash,
                         !.prov = provider, !.chain = chainId,
                         !.provs = verifyProviders(provider, chainId)]

\* Whether the loop goes on after a round without a result.
lastRoundLate(attempt) == attempt <= maxAttempts
lastRound(attempt) == attempt < maxAttempts

\* One round of the loop: every provider is asked in parallel
\* (Promise.all), then the function returns or waits attempt * 5000 ms.
VerifyRoundWith(rounds) ==
  /\ ver.st = "polling"
  /\ \E ans \in rounds :
       LET attempt == ver.round + 1
           found == {i \in DOMAIN ver.provs : checkTransactionStatus(ans[i])}
       IN  ver' = [ver EXCEPT
                     !.round = attempt,
                     !.asked = {ver.provs[i] : i \in DOMAIN ver.provs},
                     !.seen = {ver.provs[i] : i \in
                                 {j \in DOMAIN ver.provs : ans[j].tx = "found" \/
                                    (ans[j].tx = "null" /\ ans[j].rc = "found")}},
                     !.st = IF found # {} \/ ~lastRound(attempt)
                              THEN "done" ELSE "polling",
                     !.ret = found # {},
                     !.delay = IF found = {} /\ lastRound(attempt)
                                 THEN attempt * retryDelayMs ELSE 0]

\* A round in which every provider gives any of the answers.
VerifyRoundOn(answers) == VerifyRoundWith([DOMAIN ver.provs -> answers])

VerifyStep ==
  /\ VerifyRoundOn(StatusAnswers)
  /\ UNCHANGED <<clock, timestamps, rl, hist, fn, linkVars, auxVars, gwp, execVars>>

\* A caller invokes verifyTransactionWithRetry on its own.
VerifyCall ==
  /\ ver.st \in {"idle", "done"}
  /\ \E hash \in {"h1", PlaceholderHash}, chainId \in {137, 999},
        provider \in {CustomUrl, <<137, 1>>, DefaultProvider} :
       ver' = verifyBegin(hash, provider, chainId)
  /\ UNCHANGED <<clock, timestamps, rl, hist, fn, linkVars, auxVars, gwp, execVars>>

InitVerify == InitRL
NextVerify == VerifyCall \/ VerifyStep
SpecVerify == InitVerify /\ [][NextVerify]_vars /\ WF_vars(VerifyStep)

\* ---------------------------------------------------------------------
\* Transaction details, validation and encoding
\* ---------------------------------------------------------------------
\* A contract address is described by its shape: "0x" prefix, number of
\* digits after it, and whether all of them are hexadecimal.
AddrGood == [prefix |-> TRUE, digits |-> 40, hex |-> TRUE]
AddrShort == [prefix |-> TRUE, digits |-> 39, hex |-> TRUE]

\* ethers.utils.isAddress: 40 hexadecimal digits, the prefix being optional.
isAddress(a) == a.hex /\ a.digits = 40

\* /^[a-zA-Z_][a-zA-Z0-9_]*$/.test(functionName), on the names of the model.
Identifiers == {"transfer", "mint", "approve"}

\* An amount is a decimal string: absent (empty), unparsable, or a number of
\* thousandths of the native unit.
NoValue == [present |-> FALSE, parses |-> TRUE, milli |-> 0]
maxValueMilli == 1000 * 1000

IfErr(cond, msg) == IF cond THEN <<msg>> ELSE <<>>

\* The messages about details.value
valueErrorsMaxExclusive(v) ==
  IF ~v.present THEN <<>>
  ELSE IF ~v.parses THEN <<"Invalid transaction value">>
  ELSE IfErr(v.milli <= 0, "Transaction value must be greater than 0")
       \o IfErr(v.milli >= maxValueMilli, "Transaction value exceeds maximum allowed")
valueErrors(v) ==
  IF ~v.present THEN <<>>
  ELSE IF ~v.parses THEN <<"Invalid transaction value">>
  ELSE IfErr(v.milli <= 0, "Transaction value must be greater than 0")
       \o IfErr(v.milli > maxValueMilli, "Transaction value exceeds maximum allowed")

\* validateTransactionDetails(details).errors
validationErrorsFirstOnly(d) ==
  LET all == IfErr(d.contractAddress.digits = 0 \/ ~isAddress(d.contractAddress),
                   "Invalid contract address")
             \o IfErr(d.chainId <= 0, "Invalid chain ID")
             \o IfErr(d.functionName = "" \/ d.functionName \notin Identifiers,
                      "Invalid function name")
             \o IfErr(~d.abiIsArray \/ Len(d.abi) = 0, "Invalid ABI")
             \o IfErr(~d.paramsIsArray, "Invalid function parameters")
             \o valueErrors(d.value)
  IN  IF all = <<>> THEN <<>> ELSE <<all[1]>>
validationErrors(d) ==
  IfErr(d.contractAddress.digits = 0 \/ ~isAddress(d.contractAddress),
        "Invalid contract address")
  \o IfErr(d.chainId <= 0, "Invalid chain ID")
  \o IfErr(d.functionName = "" \/ d.functionName \notin Identifiers,
           "Invalid function name")
  \o IfErr(~d.abiIsArray \/ Len(d.abi) = 0, "Invalid ABI")
  \o IfErr(~d.paramsIsArray, "Invalid function parameters")
  \o valueErrors(d.value)

\* validateTransactionDetails(details)
validateTransactionDetails(d) ==
  [isValid |-> validationErrors(d) = <<>>, errors |-> validationErrors(d)]

\* The inputs validateTransactionDetails is called with.
Addresses ==
  {[prefix |-> p, digits |-> n, hex |-> h] :
     p \in BOOLEAN, n \in {0, 39, 40, 41}, h \in BOOLEAN}
Values ==
  {NoValue, [present |-> TRUE, parses |-> FALSE, milli |-> 0]}
  \cup {[present |-> TRUE, parses |-> TRUE, milli |-> m] :
          m \in {-1, 0, 1, maxValueMilli - 1, maxValueMilli, maxValueMilli + 1}}
DetailsInputs ==
  {[NoDetails EXCEPT !.contractAddress = a, !.chainId = c, !.functionName = f,
                     !.abi = abi, !.abiIsArray = abiIsArray,
                     !.paramsIsArray = paramsIsArray, !.value = v] :
     a \in Addresses, c \in {-1, 0, 137}, f \in {"", "1bad", "transfer"},
     abi \in {<<>>, <<[name |-> "transfer", inputs |-> 2]>>},
     abiIsArray \in BOOLEAN, paramsIsArray \in BOOLEAN, v \in Values}

\* A caller invokes validateTransactionDetails(details).
ValidateTransactionDetailsCall ==
  /\ fn = NoFn
  /\ \E d \in DetailsInputs :
       fn' = [op |-> "validateTransactionDetails", details |-> d,
              ret |-> validateTransactionDetails(d)]
  /\ UNCHANGED <<clock, timestamps, rl, hist, gwp, ver, execVars, linkVars, auxVars>>

\* What provider.getCode answers: the bytecode, a hex string "0x.." of some
\* bytes that may begin with the bytes 6080604052, or a failure of the
\* request: a network error (code NETWORK_ERROR, or a message that mentions
\* the network), a timeout, or another error.
Bytecode(bytes, preamble) == [kind |-> "code", bytes |-> bytes, preamble |-> preamble]
GetCodeFails(kind) == [kind |-> kind, bytes |-> 0, preamble |-> FALSE]
\* '0x6080604052'
patternBytes == 5
GetCodeAnswers ==
  {Bytecode(b, FALSE) : b \in 0..MaxCodeBytes}
  \cup {Bytecode(b, TRUE) : b \in patternBytes..MaxCodeBytes}
  \cup {GetCodeFails("networkError"), GetCodeFails("timeout"), GetCodeFails("otherError")}

\* code.length
codeLength(c) == 2 + 2 * c.bytes
\* if (code.length < 10)
shortCodeLength == 10

CodeResult(isValid, error, code) == [isValid |-> isValid, error |-> error, code |-> code]

\* validateContractCode of utils/validation.ts, the one execute() imports
validateContractCodeTs(c) ==
  IF c.kind # "code" THEN CodeResult(FALSE, "Failed to validate contract code", "")
  ELSE IF c.bytes = 0 THEN CodeResult(FALSE, "Contract not deployed at this address", "")
  ELSE IF c.preamble
    THEN CodeResult(FALSE, "Potentially malicious contract code detected", "")
  ELSE CodeResult(TRUE, "", "")

\* validateContractCode with the length check (part_004)
validateContractCodeShort(c) ==
  IF c.kind # "code" THEN CodeResult(FALSE, "Failed to validate contract code", "")
  ELSE IF c.bytes = 0 THEN CodeResult(FALSE, "Contract not deployed at this address", "")
  ELSE IF codeLength(c) < shortCodeLength
    THEN CodeResult(FALSE, "Suspiciously short contract code", "")
  ELSE CodeResult(TRUE, "", "")

\* network.chainId === 80002 || 5 || 11155111 || 97
Testnets == {80002, 5, 11155111, 97}

\* validateContractCode with testnet leniency and the NETWORK_ERROR code
\* (part_003); netOk: provider.getNetwork() answered.
validateContractCodeTestnet(c, chainId, netOk) ==
  LET isTestnet == netOk /\ chainId \in Testnets
  IN  IF c.kind = "networkError"
        THEN CodeResult(FALSE, "Network detection error", "NETWORK_ERROR")
      ELSE IF c.kind # "code"
        THEN CodeResult(FALSE, "Failed to validate contract code", "")
      ELSE IF c.bytes = 0
        THEN IF isTestnet THEN CodeResult(TRUE, "", "")
             ELSE CodeResult(FALSE, "Contract not deployed at this address", "")
      ELSE IF codeLength(c) < shortCodeLength
        THEN IF isTestnet THEN CodeResult(TRUE, "", "")
             ELSE CodeResult(FALSE, "Suspiciously short contract code", "")
      ELSE CodeResult(TRUE, "", "")

\* The versions of validateContractCode in the repository.
Validators == {"validation.ts", "part_003", "part_004"}
validateContractCodeOf(version, c, chainId, netOk) ==
  IF version = "validation.ts" THEN validateContractCodeTs(c)
  ELSE IF version = "part_004" THEN validateContractCodeShort(c)
  ELSE validateContractCodeTestnet(c, chainId, netOk)

\* A caller invokes validateContractCode(contractAddress, provider).
ValidateContractCodeCall ==
  /\ fn = NoFn
  /\ \E version \in Validators, c \in GetCodeAnswers,
        chainId \in {1, 137, 80002, 11155111}, netOk \in BOOLEAN :
       fn' = [op |-> "validateContractCode", version |-> version, code |-> c,
              chainId |-> chainId, netOk |-> netOk,
              ret |-> validateContractCodeOf(version, c, chainId, netOk)]
  /\ UNCHANGED <<clock, timestamps, rl, hist, gwp, ver, execVars, linkVars, auxVars>>

\* What getCode answers inside execute(): no code, code that begins with the
\* pattern, other code, or a failure.
CodeAnswers == {"empty", "pattern", "other", "throws"}
CodeOf(code) ==
  IF code = "empty" THEN Bytecode(0, FALSE)
  ELSE IF code = "pattern" THEN Bytecode(patternBytes, TRUE)
  ELSE IF code = "other" THEN Bytecode(patternBytes, FALSE)
  ELSE GetCodeFails("otherError")

\* validateContractCode(contractAddress, provider), on the answer of getCode
validateContractCode(code) ==
  LET r == validateContractCodeTs(CodeOf(code))
  IN  [isValid |-> r.isValid, error |-> r.error]

\* new ethers.utils.Interface(abi).encodeFunctionData(functionName, functionParams):
\* the function is looked up by name and takes exactly its inputs.
encodeFunctionDataToFit(abi, functionName, functionParams) ==
  LET hits == {i \in DOMAIN abi : abi[i].name = functionName}
  IN  IF Cardinality(hits) # 1 THEN [ok |-> FALSE, data |-> <<>>]
      ELSE LET f == abi[CHOOSE i \in hits : TRUE]
           IN  [ok |-> TRUE,
                data |-> <<functionName,
                           [k \in 1..f.inputs |->
                              IF k <= Len(functionParams) THEN functionParams[k] ELSE ""]>>]
encodeFunctionData(abi, functionName, functionParams) ==
  LET hits == {i \in DOMAIN abi : abi[i].name = functionName}
  IN  IF Cardinality(hits) # 1 THEN [ok |-> FALSE, data |-> <<>>]
      ELSE LET f == abi[CHOOSE i \in hits : TRUE]
           IN  IF Len(functionParams) # f.inputs
                 THEN [ok |-> FALSE, data |-> <<>>]
                 ELSE [ok |-> TRUE, data |-> <<functionName, functionParams>>]

\* ---------------------------------------------------------------------
\* Links and the execution pages
\* ---------------------------------------------------------------------
AbiTransfer == <<[name |-> "transfer", inputs |-> 2]>>
Descriptor == [NoDetails EXCEPT !.contractAddress = AddrGood, !.abi = AbiTransfer,
                                !.chainId = 137, !.rpcUrl = <<137, 1>>,
                                !.functionName = "transfer",
                                !.functionParams = <<"to", "amount">>]

\* A value of one unit, in thousandths.
PayValue == [present |-> TRUE, parses |-> TRUE, milli |-> 1000]

\* The transaction descriptions a link can carry.
LinkDescriptors ==
  {Descriptor,
   [Descriptor EXCEPT !.contractAddress = AddrShort],
   [Descriptor EXCEPT !.functionParams = <<"to">>],
   [Descriptor EXCEPT !.functionParams = <<"to", "amount", "extra">>],
   [Descriptor EXCEPT !.chainId = 999, !.rpcUrl = CustomUrl, !.value = PayValue]}

Pages == {"part_009", "part_010", "part_011"}
UserEmail == "user@example.com"
\* rpcUrls[80002] of the page: an endpoint that is in no fallback list.
AmoyPageUrl == <<0, 2>>

\* The TransactionDetails a page passes to execute() for the loaded descriptor.
pageDetails(pg, d, force) ==
  IF pg = "part_009"
    THEN [d EXCEPT !.email = UserEmail, !.chainId = 80002,
                   !.rpcUrl = AmoyPageUrl, !.bypassSecurity = TRUE]
  ELSE IF pg = "part_011"
    THEN [d EXCEPT !.email = UserEmail, !.bypassSecurity = force]
  ELSE d

\* The notification the page raises once execute() has resolved with val or
\* rejected with val.
pageShow(pg, kind, val) ==
  IF kind = "resolved"
    THEN IF pg = "part_011" /\ val = PlaceholderHash
           THEN [toast |-> "info"]
           ELSE [toast |-> "success"]
    ELSE IF pg = "part_009" THEN [toast |-> "error"]
         ELSE IF pg = "part_010" THEN [toast |-> ""]
         ELSE IF val \in {"Security check", "Potentially malicious contract code detected"}
           THEN [toast |-> "warning"]
         ELSE [toast |-> "error"]

\* ---------------------------------------------------------------------
\* useMetaKeepTransaction.execute
\* ---------------------------------------------------------------------
Entry(k, op) == [k |-> k, op |-> op]
Log(a, k, op) == [a EXCEPT !.trace = Append(@, Entry(k, op))]

\* The context initialises the SDK, then the user connects the wallet.
WalletStep ==
  /\ pc = "idle"
  /\ \/ wallet = "noSdk" /\ wallet' = "noAccount"
     \/ wallet = "noAccount" /\ wallet' = "connected"
  /\ UNCHANGED <<clock, timestamps, rl, hist, fn, linkVars, auxVars, gwp, ver, page, pc, details, hook, att, ui, burst>>

\* execute() has settled: the promise resolves or rejects and the page reacts.
Settle(a, kind, val, h) ==
  /\ att' = [a EXCEPT !.outcome = [kind |-> kind, val |-> val]]
  /\ hook' = h
  /\ ui' = pageShow(page, kind, val)
  /\ pc' = "idle"
  /\ details' = NoDetails
  /\ gwp' = GwpIdle
  /\ ver' = VerIdle

\* catch (err) { setError(errorMessage); throw ... } finally { setLoading(false) }
FailWithoutFinally(a, err) ==
  Settle(a, "rejected", err, [hook EXCEPT !.error = err])
Fail(a, err) ==
  Settle(a, "rejected", err, [hook EXCEPT !.error = err, !.loading = FALSE])

\* setTxHash(hash); return hash; finally { setLoading(false) }
Succeed(a, hash) ==
  Settle(a, "resolved", hash, [hook EXCEPT !.txHash = hash, !.loading = FALSE])

ExecTicks == {0, windowMs}

\* The attempts counted since the limiter last held no live timestamp.
nextBurst(b, ts, now) ==
  IF \A i \in DOMAIN ts : ts[i] <= now - 60000
    THEN [start |-> now, count |-> 1]
    ELSE [b EXCEPT !.count = Min(@ + 1, 11)]

\* The page calls execute(transactionDetails): wallet checks, rate limit,
\* state reset, validation, and the start of getWorkingProvider.
ExecuteCall ==
  /\ pc = "idle"
  /\ \E d \in LinkDescriptors, dt \in ExecTicks,
        force \in (IF page = "part_011" THEN BOOLEAN ELSE {FALSE}) :
       LET td == pageDetails(page, d, force)
           now == clock + dt
           r == checkRateLimit(timestamps, now)
           a0 == [NoAttempt EXCEPT !.bypass = td.bypassSecurity,
                                   !.link = d, !.passed = td]
           v == validateTransactionDetails(td)
       IN  /\ now <= MaxExecClock
           /\ clock' = now
           /\ IF wallet # "connected"
                THEN /\ Settle(a0, "rejected",
                               IF wallet = "noSdk" THEN "MetaKeep SDK not initialized"
                                                   ELSE "Wallet address not available",
                               hook)
                     /\ UNCHANGED <<timestamps, burst>>
                ELSE /\ timestamps' = r.ts
                     /\ burst' = nextBurst(burst, timestamps, now)
                     /\ IF ~r.ret
                          THEN Settle(a0, "rejected", "Rate limit exceeded", hook)
                          ELSE IF ~v.isValid
                            THEN Fail(a0, "Invalid transaction")
                            ELSE /\ att' = Log(Log(a0, "step", "validated"),
                                               "rpc", "getBlockNumber")
                                 /\ hook' = [txHash |-> "", loading |-> TRUE, error |-> ""]
                                 /\ details' = td
                                 /\ pc' = "provider"
                                 /\ \E lat \in [1..Len(dedupe(<<td.rpcUrl>> \o
                                                  fallbackProviders(td.chainId))) -> QuickAnswers] :
                                      gwp' = gwpBegin(td.rpcUrl, td.chainId, lat)
                                 /\ ui' = [toast |-> ""]
                                 /\ UNCHANGED ver
  /\ UNCHANGED <<rl, hist, fn, linkVars, auxVars, wallet, page>>

\* if (!provider) throw; otherwise validateContractCode is awaited.
providerUsable(p) == p # Undefined

ExecProvider ==
  /\ pc = "provider"
  /\ gwp.st = "done"
  /\ LET a0 == [att EXCEPT !.provider = gwp.ret]
         a1 == IF gwp.ret # Undefined THEN Log(a0, "step", "providerSelected") ELSE a0
     IN  IF ~providerUsable(gwp.ret)
           THEN Fail(a1, "Network detection failed")
           ELSE /\ att' = Log(a1, "rpc", "getCode")
                /\ pc' = "contract"
                /\ gwp' = GwpIdle
                /\ UNCHANGED <<ver, details, hook, ui>>
  /\ UNCHANGED <<clock, timestamps, rl, hist, fn, linkVars, auxVars, wallet, page, burst>>

\* if (!contractValidation.isValid) throw
contractGateOpen(cv) == TRUE
contractGate(cv) == cv.isValid

\* getCode has answered: contract validation, then the call is encoded and
\* estimateGas is awaited.
ExecContract ==
  /\ pc = "contract"
  /\ \E code \in CodeAnswers :
       LET cv == validateContractCode(code)
           a1 == IF cv.isValid THEN Log(att, "step", "contractValid") ELSE att
           enc == encodeFunctionData(details.abi, details.functionName,
                                     details.functionParams)
       IN  IF ~contractGate(cv)
             THEN Fail(a1, cv.error)
             ELSE IF ~enc.ok
               THEN Fail(a1, "Encoding error")
               ELSE /\ att' = Log(Log([a1 EXCEPT !.data = enc.data], "step", "encoded"),
                                  "rpc", "estimateGas")
                    /\ pc' = "gas"
                    /\ UNCHANGED <<gwp, ver, details, hook, ui>>
  /\ UNCHANGED <<clock, timestamps, rl, hist, fn, linkVars, auxVars, wallet, page, burst>>

GasSample == 50000

\* What estimateGas yields: an estimate, an error, or an error whose message
\* holds the words 'Insufficient balance'.
GasAnswers == {"estimate", "fails", "failsInsufficientBalance"}

\* catch (gasErr): if (gasErr.message.includes('Insufficient balance')) throw gasErr
gasErrorRethrown(r) == r = "failsInsufficientBalance"

\* estimateGas has answered or failed; on an answer the buffer is added and
\* fetchBalance is awaited, on a failure the nonce is fetched unless the
\* error is thrown again.
ExecGas ==
  /\ pc = "gas"
  /\ \E r \in GasAnswers :
       IF r = "estimate"
         THEN /\ att' = Log([att EXCEPT !.gas = (GasSample * 120) \div 100,
                                        !.estimated = TRUE],
                            "rpc", "getBalance")
              /\ pc' = "balance"
              /\ UNCHANGED <<gwp, ver, details, hook, ui>>
         ELSE IF gasErrorRethrown(r)
           THEN Fail(Log(att, "step", "gasFailed"), "estimateGas: Insufficient balance")
         ELSE /\ att' = Log(Log(att, "step", "gasFailed"), "rpc", "getTransactionCount")
              /\ pc' = "nonce"
              /\ UNCHANGED <<gwp, ver, details, hook, ui>>
  /\ UNCHANGED <<clock, timestamps, rl, hist, fn, linkVars, auxVars, wallet, page, burst>>

\* fetchBalance has returned; checkBalanceForGas decides on the balance the
\* hook holds.
ExecBalance ==
  /\ pc = "balance"
  /\ \E hasEnough \in BOOLEAN :
       IF ~hasEnough
         THEN Fail(att, "Insufficient balance")
         ELSE /\ att' = Log(att, "rpc", "getTransactionCount")
              /\ pc' = "nonce"
              /\ UNCHANGED <<gwp, ver, details, hook, ui>>
  /\ UNCHANGED <<clock, timestamps, rl, hist, fn, linkVars, auxVars, wallet, page, burst>>

NonceSample == 7
\* nonce = "0x1" when getTransactionCount fails
fallbackNonce == 1

\* gas: 21000 in txParams and in txObject
defaultGas == 21000

\* ethers.utils.parseEther of a value given in thousandths of a unit: the
\* amount in wei, as its digits followed by a number of zeros.
parseEther(v) == [present |-> TRUE, digits |-> v.milli, zeros |-> 15]
NoTxValue == [present |-> FALSE, digits |-> 0, zeros |-> 0]

\* txParams: the transaction object of the calls E2, M1, M2 and M3.
txParams(d, a) ==
  [to |-> d.contractAddress, data |-> a.data, nonce |-> a.nonce, gas |-> defaultGas,
   chainId |-> d.chainId,
   value |-> IF d.value.present THEN parseEther(d.value) ELSE NoTxValue]

\* txObject: the transaction object of the first call of the email path.
txObject(d, a) ==
  [to |-> d.contractAddress, data |-> a.data, nonce |-> a.nonce, gas |-> defaultGas,
   chainId |-> d.chainId, value |-> NoTxValue]

\* The object handed to the SDK by the call of a shape.
sdkObject(shape, d, a) ==
  LET o == IF shape = "E1" THEN txObject(d, a) ELSE txParams(d, a)
  IN  [shape |-> shape, to |-> o.to, chainId |-> o.chainId, gas |-> o.gas,
       nonce |-> o.nonce, data |-> o.data, value |-> o.value]

\* The first SDK call of an attempt: the email path if an email is given.
firstShape(d) == IF d.email # "" THEN "E1" ELSE "M1"

\* getTransactionCount has answered or failed; the chain is checked with the
\* SDK and the first signing call is made.
ExecNonce ==
  /\ pc = "nonce"
  /\ \E ok \in BOOLEAN :
       /\ LET a1 == [att EXCEPT !.nonce = IF ok THEN NonceSample ELSE fallbackNonce,
                                !.shape = firstShape(details)]
              a2 == Log(a1, "step", IF ok THEN "nonceFetched" ELSE "nonceFailed")
          IN  att' = Log(Log([a2 EXCEPT !.tx = sdkObject(firstShape(details), details, a2)],
                             "sdk", "chainOps"), "sign", firstShape(details))
       /\ pc' = "sign"
  /\ UNCHANGED <<clock, timestamps, rl, hist, fn, linkVars, auxVars, gwp, ver, wallet, page, details, hook, ui, burst>>

\* What an SDK signing call yields: a hash, no hash but an email-sent status,
\* no hash at all, a signed raw transaction without a hash, an error, or an
\* error that mentions security.
SignResults == {"hash", "emailSent", "nothing", "rawTx", "throws", "throwsSecurity"}

hashOf(shape) == "hash-" \o shape

\* What execute() does with the result of the call of a shape.
onSignResult(shape, r) ==
  IF r = "hash" THEN [do |-> "verify", arg |-> hashOf(shape)]
  ELSE IF shape = "E1"
    THEN IF r = "emailSent" THEN [do |-> "resolve", arg |-> PlaceholderHash]
         ELSE [do |-> "call", arg |-> "E2"]
  ELSE IF shape = "E2"
    THEN IF r \in {"emailSent", "nothing", "rawTx"}
           THEN [do |-> "resolve", arg |-> PlaceholderHash]
         ELSE [do |-> "reject", arg |-> "Email verification failed"]
  ELSE IF r = "throwsSecurity" THEN [do |-> "reject", arg |-> "Security check"]
  ELSE IF shape = "M1" THEN [do |-> "call", arg |-> "M2"]
  ELSE IF shape = "M2" THEN [do |-> "call", arg |-> "M3"]
  ELSE [do |-> "reject", arg |-> "All transaction methods failed"]

\* What execute() does once verifyTransactionWithRetry has returned for the
\* hash of a shape.
onVerifiedReturnUnconfirmed(shape, hash, found) == [do |-> "resolve", arg |-> hash]
onVerified(shape, hash, found) ==
  IF found THEN [do |-> "resolve", arg |-> hash]
  ELSE IF shape = "E1" THEN [do |-> "call", arg |-> "E2"]
  ELSE IF shape = "E2" THEN [do |-> "reject", arg |-> "Email verification failed"]
  ELSE IF shape = "M1" THEN [do |-> "call", arg |-> "M2"]
  ELSE IF shape = "M2" THEN [do |-> "call", arg |-> "M3"]
  ELSE [do |-> "reject", arg |-> "All transaction methods failed"]

\* Carrying out a decision of execute().
Do(a, d) ==
  IF d.do = "resolve" THEN Succeed(a, d.arg)
  ELSE IF d.do = "reject" THEN Fail(a, d.arg)
  ELSE IF d.do = "call"
    THEN /\ att' = Log([a EXCEPT !.shape = d.arg,
                                 !.tx = sdkObject(d.arg, details, a)], "sign", d.arg)
         /\ pc' = "sign"
         /\ ver' = VerIdle
         /\ UNCHANGED <<gwp, details, hook, ui>>
  ELSE /\ att' = Log([a EXCEPT !.hash = d.arg, !.returned = @ \cup {d.arg}],
                     "step", "hashReturned")
       /\ pc' = "verify"
       /\ ver' = verifyBegin(d.arg, a.provider, details.chainId)
       /\ UNCHANGED <<gwp, details, hook, ui>>

\* The SDK call of the current shape has returned or thrown.
ExecSign ==
  /\ pc = "sign"
  /\ \E r \in SignResults :
       Do(IF r = "rawTx" THEN Log(att, "step", "rawReturned") ELSE att,
          onSignResult(att.shape, r))
  /\ UNCHANGED <<clock, timestamps, rl, hist, fn, linkVars, auxVars, wallet, page, burst>>

\* verifyTransactionWithRetry has returned for the hash the SDK gave.
ExecVerified ==
  /\ pc = "verify"
  /\ ver.st = "done"
  /\ Do([att EXCEPT !.observed = IF ver.seen # {} THEN @ \cup {ver.hash} ELSE @],
        onVerified(att.shape, att.hash, ver.ret))
  /\ UNCHANGED <<clock, timestamps, rl, hist, fn, linkVars, auxVars, wallet, page, burst>>

\* getWorkingProvider and verifyTransactionWithRetry run inside execute().
ExecGwpStep == pc = "provider" /\ GwpStep
\* Inside execute a round finds the transaction on no provider, on the
\* selected provider only, or on the last provider of the list only.
ExecRounds ==
  {ans \in [DOMAIN ver.provs -> QuickStatusAnswers] :
     \A i \in DOMAIN ver.provs :
       ans[i].tx = "found" =>
         /\ i \in {1, Len(ver.provs)}
         /\ \A j \in DOMAIN ver.provs : ans[j].tx = "found" => j = i}

ExecVerifyStep ==
  /\ pc = "verify"
  /\ VerifyRoundWith(ExecRounds)
  /\ UNCHANGED <<clock, timestamps, rl, hist, fn, linkVars, auxVars, gwp, execVars>>

InitExec ==
  /\ clock = 0
  /\ timestamps = <<>>
  /\ rl = NoCall
  /\ hist = <<>>
  /\ gwp = GwpIdle
  /\ ver = VerIdle
  /\ wallet = "noSdk"
  /\ page \in Pages
  /\ pc = "idle"
  /\ details = NoDetails
  /\ hook = [txHash |-> "", loading |-> FALSE, error |-> ""]
  /\ att = NoAttempt
  /\ ui = [toast |-> ""]
  /\ burst = [start |-> 0, count |-> 0]
  /\ fn = NoFn
  /\ localStorage = <<>>
  /\ loaded = NoLoad
  /\ poll = NoPoll
  /\ session = NoSession
  /\ flights = NoFlights

Next ==
  \/ WalletStep
  \/ ExecuteCall
  \/ ExecGwpStep
  \/ ExecProvider
  \/ ExecContract
  \/ ExecGas
  \/ ExecBalance
  \/ ExecNonce
  \/ ExecSign
  \/ ExecVerifyStep
  \/ ExecVerified

Spec == InitExec /\ [][Next]_vars

\* The continuation of execute() after an awaited call has settled.
ExecStep ==
  \/ ExecGwpStep
  \/ ExecProvider
  \/ ExecContract
  \/ ExecGas
  \/ ExecBalance
  \/ ExecNonce
  \/ ExecSign
  \/ ExecVerifyStep
  \/ ExecVerified

\* The hook late in a window: the limiter has recorded all but one of the
\* attempts it accepts.
InitLateWindow ==
  /\ clock = MaxExecClock
  /\ timestamps = [i \in 1..(maxRequests - 1) |-> MaxExecClock]
  /\ rl = NoCall
  /\ hist = <<>>
  /\ gwp = GwpIdle
  /\ ver = VerIdle
  /\ wallet = "noSdk"
  /\ page \in Pages
  /\ pc = "idle"
  /\ details = NoDetails
  /\ hook = [txHash |-> "", loading |-> FALSE, error |-> ""]
  /\ att = NoAttempt
  /\ ui = [toast |-> ""]
  /\ burst = [start |-> MaxExecClock, count |-> maxRequests - 1]
  /\ fn = NoFn
  /\ localStorage = <<>>
  /\ loaded = NoLoad
  /\ poll = NoPoll
  /\ session = NoSession
  /\ flights = NoFlights

\* Every RPC call and every SDK call that execute() awaits settles.
SpecSettling == InitLateWindow /\ [][Next]_vars /\ WF_vars(ExecStep)

\* ---------------------------------------------------------------------
\* Properties of the rate limiter
\* ---------------------------------------------------------------------
\* The entries of a list that are not older than the window at time now.
Live(ts, now) == SelectSeq(ts, LAMBDA t : ~(t <= now - 60000))

\* C1: a call checkRateLimit() at time now discards every recorded timestamp
\* t <= now-60000, then returns true and appends now if and only if fewer
\* than 10 timestamps remain; otherwise it returns false and appends nothing.
C1_CheckRateLimitContract ==
  rl.op = "check" =>
    LET kept == Live(rl.before, rl.now)
    IN  /\ rl.ret <=> Len(kept) < 10
        /\ rl.ret => timestamps = Append(kept, rl.now)
        /\ ~rl.ret => timestamps = kept

\* A call was rejected although earlier timestamps had already been discarded.
C1_Witness ==
  /\ rl.op = "check"
  /\ ~rl.ret
  /\ Len(hist) > Len(timestamps)

\* A step in which checkRateLimit() was called.
CheckStep == rl' # rl /\ rl'.op = "check"

\* The accepted calls of the history that lie in the window ending at now.
AcceptedInWindow(now) == {i \in DOMAIN hist : hist[i] > now - 60000}

\* C2: from an empty limiter and with non-decreasing times, a call returns
\* true exactly when fewer than 10 calls were accepted in the 60 seconds
\* before it (so the first 10 calls of a window return true and every further
\* one false), no 11 accepted calls lie within 60 seconds, and a call made
\* once the window of all accepted calls has elapsed returns true.
C2_WindowQuota ==
  /\ [](\A i \in DOMAIN hist :
          i + 10 \in DOMAIN hist => hist[i + 10] - hist[i] >= 60000)
  /\ [][CheckStep =>
          /\ rl'.ret <=> Cardinality(AcceptedInWindow(clock)) < 10
          /\ (\A i \in DOMAIN hist : hist[i] + 60000 <= clock) =>
                (rl'.ret /\ timestamps' = <<clock>>)]_vars

\* A second full batch of 10 calls was accepted after the window of the
\* first batch had elapsed.
C2_Witness ==
  /\ rl.op = "check"
  /\ rl.ret
  /\ Len(hist) = 20
  /\ Len(timestamps) = 10

\* A step in which getRemainingRequests() was called.
RemainingStep == rl' # rl /\ rl'.op = "remaining"

\* The instants at or after now at which a later call is compared.
LaterInstants(now) == {now, now + 1, now + 29999, now + 30000, now + 60000}

\* C18: getRemainingRequests() returns max(0, 10 - k), where k is the number
\* of recorded timestamps newer than now-60000, and records no timestamp;
\* hence it returns 0 exactly when checkRateLimit() at the same instant would
\* return false, and a call of it leaves the result of every later
\* checkRateLimit() call as it was.
C18_RemainingRequestsContract ==
  /\ [](rl.op = "remaining" =>
          LET k == Len(Live(rl.before, rl.now))
          IN  /\ rl.n = (IF 10 - k > 0 THEN 10 - k ELSE 0)
              /\ timestamps = Live(rl.before, rl.now)
              /\ rl.n = 0 <=> ~(k < 10))
  /\ [][RemainingStep =>
          \A t \in LaterInstants(clock) :
            Len(Live(timestamps', t)) = Len(Live(timestamps, t))]_vars

\* getRemainingRequests() returned 0 on a full window, and it returned a
\* number between 0 and 10 after older timestamps had left the window.
C18_Witness ==
  /\ rl.op = "remaining"
  /\ rl.n = 0
  /\ Len(timestamps) = 10
  /\ Len(hist) > 10

\* ---------------------------------------------------------------------
\* Properties of transaction submission
\* ---------------------------------------------------------------------
Trace == att.trace
Settled == att.outcome.kind # "none"
SignCalls == {i \in DOMAIN Trace : Trace[i].k = "sign"}
NetworkCalls == {i \in DOMAIN Trace : Trace[i].k \in {"rpc", "sdk", "sign"}}
At(k, op) == {i \in DOMAIN Trace : Trace[i] = [k |-> k, op |-> op]}
Has(k, op) == At(k, op) # {}

\* C3: counting from an idle limiter, the 11th execute() attempt started
\* within one minute with a connected wallet is rejected with the rate-limit
\* error, and a rate-limited attempt makes no RPC request and no SDK call.
C3_EleventhAttemptRejected ==
  /\ (burst.count >= 11 /\ clock - burst.start < 60000) =>
       /\ att.outcome = [kind |-> "rejected", val |-> "Rate limit exceeded"]
       /\ NetworkCalls = {}
       /\ pc = "idle"
  /\ att.outcome.val = "Rate limit exceeded" => NetworkCalls = {}

\* The 11th attempt of a burst has been rejected, the wallet being connected.
C3_Witness ==
  /\ wallet = "connected"
  /\ burst.count = 11
  /\ clock - burst.start < 60000
  /\ Len(timestamps) = 10
  /\ att.outcome.val = "Rate limit exceeded"

\* C4: an SDK signing or sending call is made only after validation
\* returned isValid, a provider was selected, contract validation returned
\* isValid and the call-data was encoded, in that order; an attempt in which
\* one of these steps failed ends rejected without any signing call.
C4_SignOnlyAfterChecks ==
  /\ \A i \in SignCalls :
       \E a \in At("step", "validated"), b \in At("step", "providerSelected"),
          c \in At("step", "contractValid"), d \in At("step", "encoded") :
         a < b /\ b < c /\ c < d /\ d < i
  /\ (Settled /\ ~(Has("step", "validated") /\ Has("step", "providerSelected")
                   /\ Has("step", "contractValid") /\ Has("step", "encoded"))) =>
       (att.outcome.kind = "rejected" /\ SignCalls = {})

\* An attempt that passed the four steps and signed has resolved.
C4_Witness ==
  /\ att.outcome.kind = "resolved"
  /\ SignCalls # {}
  /\ Has("step", "contractValid")

ShapeRank(shape) ==
  IF shape \in {"E1", "M1"} THEN 1 ELSE IF shape \in {"E2", "M2"} THEN 2 ELSE 3

\* C5: the call shapes are tried in their order, a later one only after the
\* earlier ones threw or returned no hash, and once a shape has returned a
\* hash no further signing or sending call is made in the attempt.
C5_FirstHashWins ==
  \A i, j \in DOMAIN Trace :
    i < j =>
      /\ (Trace[i].k = "sign" /\ Trace[j].k = "sign") =>
           ShapeRank(Trace[i].op) < ShapeRank(Trace[j].op)
      /\ ~(Trace[i] = [k |-> "step", op |-> "hashReturned"] /\ Trace[j].k = "sign")

\* C6: execute() resolves, and the page raises a success notification, only
\* for a transaction hash the verifier observed during the attempt, and the
\* txHash of the hook holds no other real hash.
C6_SuccessOnlyForObservedHash ==
  /\ att.outcome.kind = "resolved" => att.outcome.val \in att.observed
  /\ (Settled /\ ui.toast = "success") => att.outcome.val \in att.observed
  /\ (att.outcome.kind = "resolved" /\ hook.txHash \notin {"", PlaceholderHash}) =>
       hook.txHash \in att.observed

\* The hashes the SDK returned in the attempt that were not found after the
\* polling cap.
Unconfirmed == att.returned \ att.observed
\* The last SDK call of the attempt returned a hash.
LastCallGaveHash ==
  \E i \in DOMAIN Trace :
    /\ Trace[i] = [k |-> "step", op |-> "hashReturned"]
    /\ \A j \in SignCalls : j < i

\* C7 as stated: a hash that is not found after the polling cap ends the
\* attempt in an outcome that is neither success nor failure.
C7_UnconfirmedIsDistinctOutcome ==
  (Settled /\ Unconfirmed # {}) => att.outcome.kind \notin {"resolved", "rejected"}

\* C7 as amended: execute() never resolves with a hash that was not found
\* after the polling cap; when that hash came from the last SDK call of the
\* attempt execute() rejects with an error and the page raises no success
\* notification; an attempt ends resolved or rejected, nothing else.
C7_UnconfirmedIsFailure ==
  Settled =>
    /\ att.outcome.kind \in {"resolved", "rejected"}
    /\ att.outcome.val \notin Unconfirmed
    /\ hook.txHash \notin Unconfirmed
    /\ (LastCallGaveHash /\ att.hash \in Unconfirmed) =>
         /\ att.outcome.kind = "rejected"
         /\ hook.error = att.outcome.val
         /\ ui.toast # "success"

\* The hash of the last SDK call was not found after the polling cap and
\* the attempt was rejected.
C7_Witness ==
  /\ Settled
  /\ LastCallGaveHash
  /\ att.hash \in Unconfirmed
  /\ att.outcome.kind = "rejected"

\* C10: when no provider answers, execute() fails with a network error and
\* never calls the SDK unless the bypass flag is set; with the bypass flag
\* it proceeds to signing without contract-code validation.
C10_BypassProceedsWithoutProvider ==
  (Settled /\ att.provider = Undefined) =>
    /\ ~att.bypass =>
         /\ att.outcome = [kind |-> "rejected", val |-> "Network detection failed"]
         /\ SignCalls = {}
    /\ att.bypass =>
         /\ SignCalls # {}
         /\ ~Has("rpc", "getCode")

\* C11: when the SDK returned a signed raw transaction rather than a hash,
\* execute() sends that raw transaction through the selected provider.
C11_RawTransactionBroadcast ==
  \A i \in At("step", "rawReturned") :
    (Settled \/ i < Len(Trace)) =>
      \E j \in At("rpc", "sendRawTransaction") : j > i

\* The number of parameters of a descriptor differs from the number of
\* inputs of the ABI entry named by its functionName.
ParamMismatch(d) ==
  \E i \in DOMAIN d.abi :
    d.abi[i].name = d.functionName /\ Len(d.functionParams) # d.abi[i].inputs

\* C12: for a descriptor whose parameters do not match the inputs of the
\* named ABI entry nothing is signed, and when the transaction is built the
\* attempt fails with the encoding error; what is signed is the call of the
\* descriptor's parameters, none dropped and none added.
C12_ParamMismatchFails ==
  /\ ParamMismatch(att.link) =>
       /\ SignCalls = {}
       /\ ~Has("step", "encoded")
       /\ (Settled /\ Has("step", "contractValid")) =>
            att.outcome = [kind |-> "rejected", val |-> "Encoding error"]
  /\ SignCalls # {} => att.data = <<att.link.functionName, att.link.functionParams>>

\* A descriptor with one parameter too many reached the builder and failed.
C12_Witness ==
  /\ Len(att.link.functionParams) = 3
  /\ Has("step", "contractValid")
  /\ att.outcome = [kind |-> "rejected", val |-> "Encoding error"]

\* ---------------------------------------------------------------------
\* Properties of the validation functions
\* ---------------------------------------------------------------------
\* C13: on empty bytecode validateContractCode returns isValid = false with
\* the not-deployed reason on every network, and on any other bytecode it
\* returns isValid = true.
C13_DeployedIffValid ==
  (fn.op = "validateContractCode" /\ fn.code.kind = "code") =>
    /\ fn.code.bytes = 0 =>
         /\ ~fn.ret.isValid
         /\ fn.ret.error = "Contract not deployed at this address"
    /\ fn.code.bytes > 0 => fn.ret.isValid

\* C14: when getCode fails because of a network failure the result of
\* validateContractCode carries the NETWORK_ERROR code, which no result for
\* a not-deployed or short contract carries.
C14_NetworkErrorClassified ==
  fn.op = "validateContractCode" =>
    /\ fn.code.kind \in {"networkError", "timeout"} =>
         (~fn.ret.isValid /\ fn.ret.code = "NETWORK_ERROR")
    /\ fn.code.kind = "code" => fn.ret.code # "NETWORK_ERROR"

ValidateCalled == fn.op = "validateTransactionDetails"
Reported(msg) == \E i \in DOMAIN fn.ret.errors : fn.ret.errors[i] = msg

\* C15: validateTransactionDetails reports every violated rule and no
\* satisfied one: the message of each of the rules on contractAddress,
\* chainId, functionName, abi, functionParams and value is among the errors
\* exactly when the input violates the rule, and isValid is true exactly when
\* there is no error.
C15_AllViolationsReported ==
  ValidateCalled =>
    LET d == fn.details
    IN  /\ Reported("Invalid contract address") <=>
             ~(d.contractAddress.hex /\ d.contractAddress.digits = 40)
        /\ Reported("Invalid chain ID") <=> d.chainId <= 0
        /\ Reported("Invalid function name") <=> d.functionName \in {"", "1bad"}
        /\ Reported("Invalid ABI") <=> (~d.abiIsArray \/ d.abi = <<>>)
        /\ Reported("Invalid function parameters") <=> ~d.paramsIsArray
        /\ Reported("Invalid transaction value") <=> (d.value.present /\ ~d.value.parses)
        /\ Reported("Transaction value must be greater than 0") <=>
             (d.value.present /\ d.value.parses /\ d.value.milli <= 0)
        /\ Reported("Transaction value exceeds maximum allowed") <=>
             (d.value.present /\ d.value.parses /\ d.value.milli > 1000000)
        /\ fn.ret.isValid <=> fn.ret.errors = <<>>

\* All six rules are violated at once and six messages are reported.
C15_Witness == ValidateCalled /\ Len(fn.ret.errors) = 6

\* An address of the wrong length, without the "0x" prefix or with a
\* character that is no hexadecimal digit.
Malformed(a) == a.digits # 40 \/ ~a.prefix \/ ~a.hex

\* C16: for every malformed contract address validateTransactionDetails
\* returns isValid = false with "Invalid contract address" among the errors.
C16_MalformedAddressRejected ==
  (ValidateCalled /\ Malformed(fn.details.contractAddress)) =>
    (~fn.ret.isValid /\ Reported("Invalid contract address"))

ValueMessages ==
  {"Invalid transaction value", "Transaction value must be greater than 0",
   "Transaction value exceeds maximum allowed"}

\* C17: a value that is present is accepted exactly when it parses as an
\* amount v with 0 < v <= 1000 units; v <= 0, v > 1000 and an unparsable
\* value each add their own message.
C17_ValueRange ==
  (ValidateCalled /\ fn.details.value.present) =>
    LET v == fn.details.value
    IN  /\ (\A m \in ValueMessages : ~Reported(m)) <=>
             (v.parses /\ 0 < v.milli /\ v.milli <= 1000 * 1000)
        /\ (v.parses /\ v.milli <= 0) => Reported("Transaction value must be greater than 0")
        /\ (v.parses /\ v.milli > 1000 * 1000) =>
             Reported("Transaction value exceeds maximum allowed")
        /\ ~v.parses => Reported("Invalid transaction value")

\* The value of exactly 1000 units is accepted.
C17_Witness ==
  /\ ValidateCalled
  /\ fn.details.value = [present |-> TRUE, parses |-> TRUE, milli |-> 1000 * 1000]
  /\ fn.ret.isValid

\* ---------------------------------------------------------------------
\* Properties of verification and provider selection
\* ---------------------------------------------------------------------
\* C8: verifyTransactionWithRetry makes at most 5 rounds, each asking the
\* selected provider and every distinct fallback endpoint of the chain; it
\* returns true at the first round in which a provider reports the
\* transaction or a receipt, false after the 5th round otherwise, and it
\* terminates.
C8_VerifyBounded ==
  /\ [](ver.hash \notin {"", PlaceholderHash} =>
          /\ ver.round <= 5
          /\ ver.round >= 1 =>
               ver.asked = {ver.prov} \cup Range(fallbackProviders(ver.chain))
          /\ ver.st = "polling" => ver.seen = {}
          /\ ver.st = "done" =>
               /\ ver.round >= 1
               /\ ver.ret <=> ver.seen # {}
               /\ ~ver.ret => ver.round = 5)
  /\ (ver.st = "polling" ~> ver.st = "done")

\* The verification returned false after five rounds over three providers.
C8_Witness ==
  /\ ver.st = "done"
  /\ ~ver.ret
  /\ ver.round = 5
  /\ Cardinality(ver.asked) = 1 + FallbackLen

\* An endpoint answers the liveness probe within 3 s.
Responsive(a) == a.kind = "ok" /\ a.at < 3000

\* C9: if the primary endpoint does not answer the probe within 3 s and a
\* fallback endpoint of the chain does, getWorkingProvider returns a
\* responsive fallback, and it returns no later than the 3 s timeout.
C9_FallbackSelected ==
  (/\ gwp.st = "done"
   /\ ~Responsive(gwp.lat[1])
   /\ \E i \in DOMAIN gwp.urls : i > 1 /\ Responsive(gwp.lat[i])) =>
    /\ \E i \in DOMAIN gwp.urls :
         i > 1 /\ Responsive(gwp.lat[i]) /\ gwp.ret = gwp.urls[i]
    /\ gwp.ret \in Range(fallbackProviders(gwp.urls[2][1]))
    /\ gwp.elapsed <= 3000

\* ---------------------------------------------------------------------
\* The validation functions called on their own
\* ---------------------------------------------------------------------
InitValidation == InitRL
NextValidation == ValidateContractCodeCall \/ ValidateTransactionDetailsCall
SpecValidation == InitValidation /\ [][NextValidation]_vars

\* ---------------------------------------------------------------------
\* Transaction links: the data parameter and the local-storage lookup
\* ---------------------------------------------------------------------
\* Strings are sequences of characters; a character is a one-letter string,
\* and a word that holds no special character (an object key, a uuid, the
\* text of the nested transactionDetails) is written as one element.
MaxStrLen == 3
\* Entries kept in localStorage["savedTransactions"].
MaxSaved == 2

Quote == "\""
Backslash == "\\"
StringChars == {"x", "%", "4", "1", "2", "+", " ", Quote}
Strings == UNION {[1..n -> StringChars] : n \in 0..MaxStrLen}
Hex == {"0", "1", "2", "3", "4", "5", "6", "7", "8", "9", "A", "B", "C", "D", "E", "F"}

\* The ASCII code of a character, as two hexadecimal digits.
AsciiCode ==
  ("%" :> <<"2", "5">>) @@ ("+" :> <<"2", "B">>) @@ (" " :> <<"2", "0">>) @@
  (Quote :> <<"2", "2">>) @@ (Backslash :> <<"5", "C">>) @@
  ("{" :> <<"7", "B">>) @@ ("}" :> <<"7", "D">>) @@ (":" :> <<"3", "A">>) @@
  ("," :> <<"2", "C">>) @@ ("x" :> <<"7", "8">>) @@ ("4" :> <<"3", "4">>) @@
  ("1" :> <<"3", "1">>) @@ ("2" :> <<"3", "2">>)
\* Letters and digits are left alone by encodeURIComponent.
UnreservedChars == {"x", "4", "1", "2"}
\* The character of a code; a code of no character above is a character of its own.
ByteChar(h1, h2) ==
  IF \E c \in DOMAIN AsciiCode : AsciiCode[c] = <<h1, h2>>
    THEN CHOOSE c \in DOMAIN AsciiCode : AsciiCode[c] = <<h1, h2>>
    ELSE "0x" \o h1 \o h2
ControlChars == {"0x" \o h1 \o h2 : h1 \in {"0", "1"}, h2 \in Hex}

\* A SavedTransaction: its id, its transactionDetails and its description.
Ids == {"id1", "id2"}
UndefinedParam == "undefined"
SavedTransaction(id, d, text) ==
  [id |-> id, transactionDetails |-> d, description |-> text]
Descriptors ==
  {SavedTransaction(id, "details", text) : id \in Ids, text \in Strings}

\* JSON.stringify of a string: quotes and backslashes are escaped.
RECURSIVE escapeJson(_)
escapeJson(str) ==
  IF str = <<>> THEN <<>>
  ELSE (IF Head(str) \in {Quote, Backslash} THEN <<Backslash, Head(str)>>
                                             ELSE <<Head(str)>>)
       \o escapeJson(Tail(str))

\* JSON.stringify of a SavedTransaction.
JSONstringify(tx) ==
  <<"{", Quote, "id", Quote, ":", Quote, tx.id, Quote, ",",
    Quote, "transactionDetails", Quote, ":", tx.transactionDetails, ",",
    Quote, "description", Quote, ":", Quote>>
  \o escapeJson(tx.description) \o <<Quote, "}">>
headLen == 20

\* JSON.parse of a string literal from position i on: the string, and the
\* position after its closing quote; a control character or a wrong escape
\* is a SyntaxError.
RECURSIVE readString(_, _, _)
readString(text, i, acc) ==
  IF i > Len(text) THEN [ok |-> FALSE, value |-> <<>>, next |-> i]
  ELSE IF text[i] = Quote THEN [ok |-> TRUE, value |-> acc, next |-> i + 1]
  ELSE IF text[i] = Backslash
    THEN IF i + 1 <= Len(text) /\ text[i + 1] \in {Quote, Backslash}
           THEN readString(text, i + 2, Append(acc, text[i + 1]))
           ELSE [ok |-> FALSE, value |-> <<>>, next |-> i]
  ELSE IF text[i] \in ControlChars
    THEN [ok |-> FALSE, value |-> <<>>, next |-> i]
  ELSE readString(text, i + 1, Append(acc, text[i]))

\* JSON.parse of the text of a SavedTransaction; ok is FALSE when it throws.
JSONparse(text) ==
  IF /\ Len(text) >= headLen + 2
     /\ SubSeq(text, 1, headLen)
          = SubSeq(JSONstringify(SavedTransaction(text[7], text[14], <<>>)), 1, headLen)
    THEN LET r == readString(text, headLen + 1, <<>>)
         IN  IF r.ok /\ SubSeq(text, r.next, Len(text)) = <<"}">>
               THEN [ok |-> TRUE,
                     value |-> SavedTransaction(text[7], text[14], r.value)]
               ELSE [ok |-> FALSE, value |-> NoTransaction]
    ELSE [ok |-> FALSE, value |-> NoTransaction]

\* encodeURIComponent: every character that is not unreserved becomes %XX.
RECURSIVE encodeURIComponent(_)
encodeURIComponent(text) ==
  IF text = <<>> THEN <<>>
  ELSE (IF Head(text) \in DOMAIN AsciiCode /\ Head(text) \notin UnreservedChars
          THEN <<"%">> \o AsciiCode[Head(text)]
          ELSE <<Head(text)>>)
       \o encodeURIComponent(Tail(text))

\* Percent-decoding. A "%" that two hexadecimal digits do not follow is a
\* URIError when strict (decodeURIComponent) and is kept otherwise
\* (URLSearchParams); a lone byte above 0x7F is not valid UTF-8.
RECURSIVE percentDecode(_, _)
percentDecode(text, strict) ==
  IF text = <<>> THEN [ok |-> TRUE, text |-> <<>>]
  ELSE IF Head(text) = "%"
    THEN IF Len(text) >= 3 /\ text[2] \in Hex /\ text[3] \in Hex
           THEN IF strict /\ text[2] \in {"8", "9", "A", "B", "C", "D", "E", "F"}
                  THEN [ok |-> FALSE, text |-> <<>>]
                  ELSE LET r == percentDecode(SubSeq(text, 4, Len(text)), strict)
                       IN  [ok |-> r.ok,
                            text |-> <<ByteChar(text[2], text[3])>> \o r.text]
           ELSE IF strict
                  THEN [ok |-> FALSE, text |-> <<>>]
                  ELSE LET r == percentDecode(Tail(text), strict)
                       IN  [ok |-> r.ok, text |-> <<"%">> \o r.text]
    ELSE LET r == percentDecode(Tail(text), strict)
         IN  [ok |-> r.ok, text |-> <<Head(text)>> \o r.text]

decodeURIComponent(text) == percentDecode(text, TRUE)

\* new URLSearchParams(location.search).get("data"): "+" becomes a space,
\* then the value is percent-decoded.
searchParamsGet(value) ==
  percentDecode([i \in DOMAIN value |-> IF value[i] = "+" THEN " " ELSE value[i]],
                FALSE).text

\* The value of the data parameter of a link: the JSON text of the
\* descriptor, URL-encoded.
encodeLink(tx) == encodeURIComponent(JSONstringify(tx))

\* What the load effect of the page sets: the transaction and the error.
Loaded(tx) == [transaction |-> tx, error |-> ""]
LoadError(msg) == [transaction |-> NoTransaction, error |-> msg]

\* The load effect of the execution page when the link carries the data
\* parameter (part_009, part_011).
loadFromData(data) ==
  LET encodedData == searchParamsGet(data)
      decodedData == decodeURIComponent(encodedData)
      parsedTransaction == JSONparse(decodedData.text)
  IN  IF ~decodedData.ok \/ ~parsedTransaction.ok
        THEN LoadError("Failed to load transaction details")
        ELSE Loaded(parsedTransaction.value)

\* The route "/execute/:transactionId" of App, matched on /execute/<id>.
routeParams(id) == [transactionId |-> id, id |-> UndefinedParam]

\* useParams of the page: part_009 and part_011 read the parameter id,
\* part_010 reads the parameter transactionId.
useParams(pg, id) ==
  IF pg = "part_010" THEN routeParams(id).transactionId ELSE routeParams(id).id

\* savedTransactions.find(tx => tx.id === transactionId)
RECURSIVE findById(_, _)
findById(saved, transactionId) ==
  IF saved = <<>> THEN LoadError("Transaction not found")
  ELSE IF ~JSONparse(Head(saved)).ok
    THEN LoadError("Failed to load transaction details")
  ELSE IF JSONparse(Head(saved)).value.id = transactionId
    THEN Loaded(JSONparse(Head(saved)).value)
  ELSE findById(Tail(saved), transactionId)

\* The load effect of the execution page when the link carries no data.
loadFromStorage(pg, id) == findById(localStorage, useParams(pg, id))

\* A link with the data parameter is opened.
OpenDataLink ==
  /\ loaded = NoLoad
  /\ \E tx \in Descriptors, pg \in {"part_009", "part_011"} :
       LET r == loadFromData(encodeLink(tx))
       IN  loaded' = [via |-> "data", page |-> pg, id |-> tx.id, original |-> tx,
                      transaction |-> r.transaction, error |-> r.error]
  /\ UNCHANGED <<clock, timestamps, rl, hist, fn, gwp, ver, execVars, localStorage, auxVars>>

\* CreateTransactionPage.handleGenerateLink: the transaction is pushed onto
\* localStorage["savedTransactions"]; the link is /execute/<id>.
handleGenerateLink ==
  /\ loaded = NoLoad
  /\ Len(localStorage) < MaxSaved
  /\ \E tx \in Descriptors :
       /\ Len(tx.description) <= 1
       /\ localStorage' = Append(localStorage, JSONstringify(tx))
  /\ UNCHANGED <<clock, timestamps, rl, hist, fn, gwp, ver, execVars, loaded, auxVars>>

\* The link /execute/<id> is opened in the browser that holds localStorage.
OpenStoredLink ==
  /\ loaded = NoLoad
  /\ \E id \in Ids, pg \in Pages :
       LET r == loadFromStorage(pg, id)
       IN  loaded' = [via |-> "storage", page |-> pg, id |-> id,
                      original |-> NoTransaction,
                      transaction |-> r.transaction, error |-> r.error]
  /\ UNCHANGED <<clock, timestamps, rl, hist, fn, gwp, ver, execVars, localStorage, auxVars>>

InitLink == InitRL
NextDataLink == OpenDataLink
SpecDataLink == InitLink /\ [][NextDataLink]_vars
NextStoredLink == handleGenerateLink \/ OpenStoredLink
SpecStoredLink == InitLink /\ [][NextStoredLink]_vars

\* The SavedTransactions that localStorage holds under an id.
StoredUnder(id) ==
  {tx \in Descriptors :
     tx.id = id /\ \E i \in DOMAIN localStorage : localStorage[i] = JSONstringify(tx)}

\* C19: a transaction descriptor, whatever characters its string fields
\* contain, that is serialized to JSON and URL-encoded into the data
\* parameter is decoded by the execution page to a descriptor equal to it.
C19_DataLinkRoundTrip ==
  loaded.via = "data" =>
    (loaded.error = "" /\ loaded.transaction = loaded.original)

\* C20: a link /execute/<id> opened in the browser that generated it
\* resolves to the SavedTransaction stored under that id, and an id that was
\* never stored gives "Transaction not found".
C20_StoredLinkResolves ==
  loaded.via = "storage" =>
    IF StoredUnder(loaded.id) # {}
      THEN loaded.error = "" /\ loaded.transaction \in StoredUnder(loaded.id)
      ELSE loaded.error = "Transaction not found"

\* ---------------------------------------------------------------------
\* Properties of the transaction object and of the attempt's bookkeeping
\* ---------------------------------------------------------------------
\* The attempt has handed a transaction object to the SDK.
Handed == att.tx.shape # ""

\* C21: the TransactionDetails the page passes to execute() equal the loaded
\* descriptor on contractAddress, abi, chainId, rpcUrl, functionName,
\* functionParams and value, and the object handed to the SDK has
\* to = contractAddress and chainId = the descriptor's chainId.
C21_SignedIsDescribed ==
  /\ att.passed # NoDetails =>
       /\ att.passed.contractAddress = att.link.contractAddress
       /\ att.passed.abi = att.link.abi
       /\ att.passed.chainId = att.link.chainId
       /\ att.passed.rpcUrl = att.link.rpcUrl
       /\ att.passed.functionName = att.link.functionName
       /\ att.passed.functionParams = att.link.functionParams
       /\ att.passed.value = att.link.value
  /\ Handed =>
       /\ att.tx.to = att.link.contractAddress
       /\ att.tx.chainId = att.link.chainId

\* C22: when gas estimation succeeds with estimate g, the gas limit of the
\* transaction object handed to the SDK is floor(g*120/100); the default gas
\* limit is used only when estimation fails.
C22_GasLimitIsBufferedEstimate ==
  Handed =>
    /\ att.estimated => att.tx.gas = (GasSample * 120) \div 100
    /\ att.tx.gas = 21000 => ~att.estimated

\* The positions of the trace that hold a step.
StepAt(op) == {i \in DOMAIN att.trace : att.trace[i] = [k |-> "step", op |-> op]}

\* C23: a failure of estimateGas or of getTransactionCount never fails the
\* attempt: execute continues to signing with the default gas limit and, for
\* the nonce, the placeholder 0x1; when getTransactionCount succeeds the
\* nonce used is the returned count.
C23_GasAndNonceFailuresSwallowed ==
  /\ \A i \in StepAt("gasFailed") :
       /\ i + 1 \in DOMAIN att.trace
       /\ att.trace[i + 1] = [k |-> "rpc", op |-> "getTransactionCount"]
       /\ Handed => att.tx.gas = 21000
  /\ \A i \in StepAt("nonceFailed") : Handed /\ att.tx.nonce = 1
  /\ \A i \in StepAt("nonceFetched") : Handed /\ att.tx.nonce = NonceSample

\* C24: whenever the descriptor specifies a value, every transaction object
\* handed to the SDK carries that value in wei, and a value is absent only
\* when the descriptor specifies none.
C24_ValueCarried ==
  Handed =>
    /\ att.link.value.present =>
         /\ att.tx.value.present
         /\ att.tx.value.digits = att.link.value.milli
         /\ att.tx.value.zeros = 15
    /\ ~att.tx.value.present => ~att.link.value.present

\* A step in which the page calls execute().
ExecuteCallStep == pc = "idle" /\ wallet' = wallet

\* C29 as stated: a call rejected for a missing SDK or wallet address records
\* no timestamp, every other call records exactly one, and no later step of
\* the attempt records another.
C29_OneTimestampPerCall ==
  [][/\ (ExecuteCallStep /\ wallet # "connected") => timestamps' = timestamps
     /\ (ExecuteCallStep /\ wallet = "connected") =>
          timestamps' = Append(Live(timestamps, clock'), clock')
     /\ pc # "idle" => timestamps' = timestamps]_vars

\* C29, amended: a call rejected for a missing SDK or wallet address records
\* no timestamp; a call that passes that precondition records exactly one
\* timestamp if fewer than 10 live timestamps are recorded and none if it is
\* rejected by the limiter; no later step of the attempt, failing or
\* succeeding, records or removes a timestamp.
C29_OneTimestampPerAcceptedCall ==
  [][/\ (ExecuteCallStep /\ wallet # "connected") => timestamps' = timestamps
     /\ (ExecuteCallStep /\ wallet = "connected") =>
          LET kept == Live(timestamps, clock')
          IN  IF Len(kept) < 10
                THEN /\ timestamps' = Append(kept, clock')
                     /\ att'.outcome.val # "Rate limit exceeded"
                ELSE /\ timestamps' = kept
                     /\ att'.outcome = [kind |-> "rejected", val |-> "Rate limit exceeded"]
     /\ pc # "idle" => timestamps' = timestamps]_vars

\* An attempt that failed validation was counted, after ten attempts an
\* eleventh was refused.
C29_Witness ==
  /\ att.outcome = [kind |-> "rejected", val |-> "Rate limit exceeded"]
  /\ Len(timestamps) = 10

\* C25: provided every RPC call and every SDK call settles, every execute
\* attempt eventually resolves with a hash or the placeholder or rejects with
\* an error, and whenever an attempt has settled the loading flag is false.
C25_ExecuteSettles ==
  /\ (pc # "idle") ~> (pc = "idle" /\ att.outcome.kind \in {"resolved", "rejected"})
  /\ [](pc = "idle" => ~hook.loading)

\* An attempt that set the loading flag, polled for its hash in vain and
\* tried the next call shape has been rejected.
C25_Witness ==
  /\ pc = "idle"
  /\ att.outcome.kind = "rejected"
  /\ Has("step", "hashReturned")
  /\ Cardinality(SignCalls) >= 2
  /\ ~hook.loading

\* ---------------------------------------------------------------------
\* TransactionStatus: polling for the transaction
\* ---------------------------------------------------------------------
\* if (transactionFoundOnChain || confirmationChecks >= 6) clearInterval
maxConfirmationChecks == 6
\* Checks of the chain are explored up to MaxPollChecks.
MaxPollChecks == 8

TxHashes == {"", PlaceholderHash, "h1", "h2"}

\* checkTransactionStatus of the component: getTransaction, then
\* getTransactionReceipt; the state after the answer a. made, failed, seen
\* and excess record the checks of the current hash: how many were made, how
\* many found nothing, whether one found the transaction, and how many were
\* made after one had found it or six had found nothing.
pollCheck(p, a) ==
  LET ok == a.tx = "found" \/ (a.tx = "null" /\ a.rc = "found")
      q == [p EXCEPT !.made = @ + 1,
                     !.excess = IF p.seen \/ p.failed >= maxConfirmationChecks THEN @ + 1 ELSE @]
  IN  IF ok THEN [q EXCEPT !.found = "true", !.seen = TRUE]
            ELSE [q EXCEPT !.found = "false", !.checks = @ + 1, !.failed = @ + 1]

\* The interval callback stops on the values the effect captured when it ran.
pollStops(p) == p.capFound = "true" \/ p.capChecks >= maxConfirmationChecks

\* The component is given a transaction hash: the cleanup of the previous
\* effect clears its interval, the effect runs again, checks at once and
\* starts the interval, unless the hash is empty or the placeholder.
PollGiveHash ==
  /\ poll.checks < MaxPollChecks
  /\ \E h \in TxHashes \ {poll.txHash}, a \in StatusAnswers :
       LET p == [poll EXCEPT !.txHash = h, !.timer = FALSE, !.made = 0, !.failed = 0,
                             !.seen = FALSE, !.excess = 0]
       IN  poll' = IF h \in {"", PlaceholderHash}
                     THEN p
                     ELSE pollCheck([p EXCEPT !.timer = TRUE, !.capFound = poll.found,
                                              !.capChecks = poll.checks], a)
  /\ UNCHANGED <<clock, timestamps, rl, hist, fn, gwp, ver, execVars, linkVars,
                 session, flights>>

\* Five seconds have passed: the interval callback runs.
PollTick ==
  /\ poll.timer
  /\ poll.checks < MaxPollChecks
  /\ poll.made < MaxPollChecks
  /\ \E a \in StatusAnswers :
       poll' = IF pollStops(poll) THEN [poll EXCEPT !.timer = FALSE]
                                  ELSE pollCheck(poll, a)
  /\ UNCHANGED <<clock, timestamps, rl, hist, fn, gwp, ver, execVars, linkVars,
                 session, flights>>

\* The component is unmounted: the cleanup clears the interval and the state
\* is dropped.
PollUnmount ==
  /\ poll # NoPoll
  /\ poll' = NoPoll
  /\ UNCHANGED <<clock, timestamps, rl, hist, fn, gwp, ver, execVars, linkVars,
                 session, flights>>

InitPoll == InitRL
NextPoll == PollGiveHash \/ PollTick \/ PollUnmount
SpecPoll == InitPoll /\ [][NextPoll]_vars

\* The component holds a hash it polls for.
RealHash == poll.txHash \notin {"", PlaceholderHash}

\* C26: given a real transaction hash the component checks the chain at once
\* and then every 5 seconds, and it stops checking as soon as the
\* transaction has been found or after 6 unsuccessful checks: no check is
\* made beyond that while it is mounted.
C26_PollingStops ==
  /\ RealHash => poll.made >= 1
  /\ (RealHash /\ ~poll.seen /\ poll.failed < maxConfirmationChecks /\ poll.made < MaxPollChecks) => poll.timer
  /\ poll.excess = 0

\* ---------------------------------------------------------------------
\* MetakeepContext: the wallet session
\* ---------------------------------------------------------------------
DefaultEmail == "meetjaiin@gmail.com"
OtherEmails == {"a@x.io", "b@x.io"}
\* connect(userEmail?): no argument, the default email or another one.
ConnectEmails == {NoUser, DefaultEmail} \cup OtherEmails

\* An SDK instance is new window.MetaKeep({appId, user: {email}}); it is
\* named by its email, and getWallet() of it answers the wallet of that user.
walletOf(sdk) == sdk

\* Answers of getWallet(): status SUCCESS with an ethAddress, SUCCESS with no
\* wallet, a rejection with a MetaKeep status, any other rejection.
WalletResponses == {"wallet", "noWallet", "denied", "fails"}

connectError(r) ==
  CASE r = "noWallet" -> "Wallet verification may be required. Please check your email."
    [] r = "denied" -> "User denied wallet access request."
    [] OTHER -> "getWallet failed"

\* initializeMetaKeep of the mount effect: the SDK of the default email is
\* put in the context, or the error is.
SdkInit ==
  /\ session.metaKeep = NoUser
  /\ session.error = ""
  /\ \E ok \in BOOLEAN :
       session' = IF ok THEN [session EXCEPT !.metaKeep = DefaultEmail]
                        ELSE [session EXCEPT !.error = "Failed to initialize MetaKeep"]
  /\ UNCHANGED <<clock, timestamps, rl, hist, fn, gwp, ver, execVars, linkVars,
                 poll, flights>>

\* connect(userEmail) up to its await of getWallet(): the call keeps the
\* metaKeep of the render it was made in, whatever setMetaKeep stores.
ConnectCall ==
  /\ session.metaKeep # NoUser
  /\ session.call.op = "none"
  /\ \E userEmail \in ConnectEmails :
       session' = [session EXCEPT
                     !.connecting = TRUE,
                     !.error = "",
                     !.metaKeep = IF userEmail # NoUser /\ userEmail # DefaultEmail
                                    THEN userEmail ELSE @,
                     !.call = [op |-> "connect", metaKeep |-> session.metaKeep]]
  /\ UNCHANGED <<clock, timestamps, rl, hist, fn, gwp, ver, execVars, linkVars,
                 poll, flights>>

\* getWallet() of the call's instance has answered.
ConnectSettle ==
  /\ session.call.op = "connect"
  /\ \E r \in WalletResponses :
       session' = IF r = "wallet"
                    THEN [session EXCEPT !.accountAddress = walletOf(session.call.metaKeep),
                                         !.connected = TRUE,
                                         !.connecting = FALSE,
                                         !.call = NoSession.call]
                    ELSE [session EXCEPT !.error = connectError(r),
                                         !.connected = FALSE,
                                         !.connecting = FALSE,
                                         !.call = NoSession.call]
  /\ UNCHANGED <<clock, timestamps, rl, hist, fn, gwp, ver, execVars, linkVars,
                 poll, flights>>

\* disconnect(): the SDK's disconnect, if it has one, returns or throws.
Disconnect ==
  /\ session.metaKeep # NoUser
  /\ \E ok \in BOOLEAN :
       session' = IF ok THEN [session EXCEPT !.connected = FALSE,
                                             !.accountAddress = NoUser]
                        ELSE [session EXCEPT !.error = "disconnect failed"]
  /\ UNCHANGED <<clock, timestamps, rl, hist, fn, gwp, ver, execVars, linkVars,
                 poll, flights>>

InitSession == InitRL
NextSession == SdkInit \/ ConnectCall \/ ConnectSettle \/ Disconnect
SpecSession == InitSession /\ [][NextSession]_vars

\* C27: whenever accountAddress is set it is the wallet that getWallet() of
\* the SDK instance held in the context answers; connect(userEmail) with a
\* non-default email takes the wallet from the instance made for userEmail.
C27_AddressOfHeldInstance ==
  (session.call.op = "none" /\ session.accountAddress # NoUser)
    => session.accountAddress = walletOf(session.metaKeep)

\* C28: connected is true exactly when accountAddress is set, and connecting
\* is false whenever no connect() call is in flight.
C28_SessionFlagsAgree ==
  /\ session.connected <=> session.accountAddress # NoUser
  /\ session.call.op = "none" => ~session.connecting

\* ---------------------------------------------------------------------
\* useMetaKeepTransaction: execute calls that overlap
\* ---------------------------------------------------------------------
\* Calls of execute on one hook are explored up to MaxFlights.
MaxFlights == 3

\* Calls are numbered in the order they passed the rate-limit check. error
\* and txHash record the call that wrote them last; overwritten records
\* that a call wrote over the value of a call that started after it.
setError(f, i, v) ==
  [f EXCEPT !.error = [by |-> i, val |-> v],
            !.overwritten = @ \/ f.error.by > i]

setTxHash(f, i, v) ==
  [f EXCEPT !.txHash = [by |-> i, val |-> v],
            !.overwritten = @ \/ f.txHash.by > i]

InFlight(f) == {i \in DOMAIN f.status : f.status[i] = "inFlight"}

\* execute passed the rate-limit check: "Reset states".
FlightStart ==
  /\ Len(flights.status) < MaxFlights
  /\ LET i == Len(flights.status) + 1
     IN  flights' = [setTxHash(setError(flights, i, "null"), i, "null") EXCEPT
                       !.loading = TRUE,
                       !.status = Append(@, "inFlight"),
                       !.monitor = Append(@, "none")]
  /\ UNCHANGED <<clock, timestamps, rl, hist, fn, gwp, ver, execVars, linkVars,
                 poll, session>>

\* A call returns a verified hash: setTxHash(hash), monitorTransaction is
\* started in the background, finally sets loading to false.
FlightResolve ==
  /\ \E i \in InFlight(flights) :
       flights' = [setTxHash(flights, i, "hash") EXCEPT
                     !.loading = FALSE,
                     !.status[i] = "resolved",
                     !.monitor[i] = "running"]
  /\ UNCHANGED <<clock, timestamps, rl, hist, fn, gwp, ver, execVars, linkVars,
                 poll, session>>

\* A call throws inside the try: the catch sets the error, finally sets
\* loading to false.
FlightReject ==
  /\ \E i \in InFlight(flights) :
       flights' = [setError(flights, i, "message") EXCEPT
                     !.loading = FALSE,
                     !.status[i] = "rejected"]
  /\ UNCHANGED <<clock, timestamps, rl, hist, fn, gwp, ver, execVars, linkVars,
                 poll, session>>

\* monitorTransaction of a resolved call ends: the transaction was found
\* (setError(null)) or the attempts are used up (setError of the warning).
MonitorEnd ==
  /\ \E i \in DOMAIN flights.monitor, found \in BOOLEAN :
       /\ flights.monitor[i] = "running"
       /\ flights' = [setError(flights, i, IF found THEN "null" ELSE "notSubmitted")
                        EXCEPT !.monitor[i] = "done"]
  /\ UNCHANGED <<clock, timestamps, rl, hist, fn, gwp, ver, execVars, linkVars,
                 poll, session>>

InitOverlap == InitRL
NextOverlap == FlightStart \/ FlightResolve \/ FlightReject \/ MonitorEnd
SpecOverlap == InitOverlap /\ [][NextOverlap]_vars

\* C30: with overlapping execute calls on one hook, loading is true
\* whenever a call that passed the rate-limit check is still in flight, and
\* a finishing call never overwrites the error or txHash set by a call that
\* started later.
C30_OverlapKeepsState ==
  /\ InFlight(flights) # {} => flights.loading
  /\ ~flights.overwritten

====
